---- MODULE Spec2Model ----
(***************************************************************************)
(* Model of the marketing-attribution backend (mlmanthan3.0/backend):      *)
(*   causal_engine.py  safe_float, compute_uplift_summary,                 *)
(*                     estimate_causal_effect, get_causal_graph_image      *)
(*   main.py           save_state / load_state and the HTTP handlers       *)
(*                                                                         *)
(* Floating point is modelled as fixed point: a finite float is an integer *)
(* number of 1/SCALE units, results are truncated to that grid, and a      *)
(* result whose magnitude exceeds FMAX overflows to +/-Infinity as an IEEE *)
(* double does.  NaN and +/-Infinity follow the IEEE rules.                *)
(***************************************************************************)
EXTENDS Integers, Sequences, FiniteSets, TLC

VARIABLES
    op,          \* which function the pending call is for
    args,        \* the arguments of the call
    ret,         \* the value the call returned (Pending before it returns)
    mem,         \* main.py: state["df"]
    pickle,      \* main.py: the file TEMP_DATA_FILE
    dflt,        \* main.py: the file DEFAULT_DATA_FILE
    resp,        \* main.py: the last HTTP response
    lastStored   \* history: dataset of the most recent successful /upload or /simulate

vars == <<op, args, ret, mem, pickle, dflt, resp, lastStored>>

\* ------------------------------------------------------------------ bounds
\* fixed-point resolution: 1.0 is SCALE units
SCALE == 100
\* largest finite float, in whole units (the stand-in for 1.797e308)
FMaxInt == 3000
\* a large finite outcome value, in whole units: HugeInt + small stays finite,
\* HugeInt + HugeInt and HugeInt squared overflow
HugeInt == 2000
\* longest 1-D array / most rows and columns of a 2-D array given to safe_float
MaxLen == 3
MaxDim == 2
\* most rows of a dataset given to compute_uplift_summary
MaxRows == 4

FMAX == FMaxInt * SCALE

\* ------------------------------------------------------------------ values
\* A Python / numpy value: t is its type, k the kind of number, v the payload.
\*   t: "int" "float" "str" "none" (Python), "npint" "npfloat" (numpy scalars),
\*      "ndarray" (numpy array, v = its elements in iteration order),
\*      "list" (Python list, v = its elements)
Fin(t, n) == [t |-> t, k |-> "fin", v |-> n]
NaNv(t) == [t |-> t, k |-> "nan", v |-> 0]
Infv(t, s) == [t |-> t, k |-> "inf", v |-> s]
None == [t |-> "none", k |-> "none", v |-> 0]
Text == [t |-> "str", k |-> "text", v |-> 0]
NdArray(s) == [t |-> "ndarray", k |-> "seq", v |-> s]
List(s) == [t |-> "list", k |-> "seq", v |-> s]
Pending == [t |-> "pending", k |-> "none", v |-> 0]

IsNone(x) == x.t = "none"
IsFinite(x) == x.k = "fin"
IsNaN(x) == x.k = "nan"
IsInf(x) == x.k = "inf"
IsNumber(x) == x.k \in {"fin", "nan", "inf"}

Abs(n) == IF n < 0 THEN -n ELSE n
Sign(n) == IF n < 0 THEN -1 ELSE 1
\* integer division truncating toward zero
TruncDiv(a, b) == Sign(a) * Sign(b) * (Abs(a) \div Abs(b))

\* ------------------------------------------------------- float arithmetic
\* the float an exact result n (in units) rounds to: overflow gives +/-Infinity
Round(n) == IF Abs(n) > FMAX THEN Infv("npfloat", Sign(n)) ELSE Fin("npfloat", n)

FNeg(a) ==
    IF IsNaN(a) THEN NaNv("npfloat")
    ELSE IF IsInf(a) THEN Infv("npfloat", -a.v)
    ELSE Fin("npfloat", -a.v)

FAdd(a, b) ==
    IF IsNaN(a) \/ IsNaN(b) THEN NaNv("npfloat")
    ELSE IF IsInf(a) /\ IsInf(b)
        THEN IF a.v = b.v THEN Infv("npfloat", a.v) ELSE NaNv("npfloat")
    ELSE IF IsInf(a) THEN Infv("npfloat", a.v)
    ELSE IF IsInf(b) THEN Infv("npfloat", b.v)
    ELSE Round(a.v + b.v)

FSub(a, b) == FAdd(a, FNeg(b))

FMul(a, b) ==
    IF IsNaN(a) \/ IsNaN(b) THEN NaNv("npfloat")
    ELSE IF IsInf(a) \/ IsInf(b)
        THEN IF (IsFinite(a) /\ a.v = 0) \/ (IsFinite(b) /\ b.v = 0)
             THEN NaNv("npfloat")
             ELSE Infv("npfloat", Sign(a.v) * Sign(b.v))
    ELSE IF a.v = 0 \/ b.v = 0 THEN Fin("npfloat", 0)
    ELSE IF Abs(b.v) > (FMAX * SCALE + SCALE) \div Abs(a.v)
        THEN Infv("npfloat", Sign(a.v) * Sign(b.v))
    ELSE Round(TruncDiv(a.v * b.v, SCALE))

\* numpy division: a zero divisor gives +/-Infinity or NaN, never an exception
FDiv(a, b) ==
    IF IsNaN(a) \/ IsNaN(b) THEN NaNv("npfloat")
    ELSE IF IsInf(a) /\ IsInf(b) THEN NaNv("npfloat")
    ELSE IF IsInf(a) THEN Infv("npfloat", a.v * Sign(b.v))
    ELSE IF IsInf(b) THEN Fin("npfloat", 0)
    ELSE IF b.v = 0
        THEN IF a.v = 0 THEN NaNv("npfloat") ELSE Infv("npfloat", Sign(a.v))
    ELSE Round(TruncDiv(a.v * SCALE, b.v))

\* comparisons: every comparison with NaN is false
FLt(a, b) ==
    IF IsNaN(a) \/ IsNaN(b) THEN FALSE
    ELSE IF IsInf(a) THEN a.v < 0 /\ ~(IsInf(b) /\ b.v < 0)
    ELSE IF IsInf(b) THEN b.v > 0
    ELSE a.v < b.v

FEq(a, b) ==
    IF IsNaN(a) \/ IsNaN(b) THEN FALSE
    ELSE a.k = b.k /\ a.v = b.v

FGe(a, b) == FLt(b, a) \/ FEq(a, b)
FGt(a, b) == FLt(b, a)

\* the float of a Python integer count
FromInt(n) == Fin("npfloat", n * SCALE)

\* a float times the decimal constant num/den (1.96 is 196/100, 100.0 is 100/1)
FScale(a, num, den) ==
    IF IsNaN(a) THEN NaNv("npfloat")
    ELSE IF IsInf(a) THEN Infv("npfloat", a.v)
    ELSE IF num * Abs(a.v) > FMAX * den THEN Infv("npfloat", Sign(a.v))
    ELSE Fin("npfloat", TruncDiv(num * a.v, den))

RECURSIVE ISqrtBetween(_, _, _)
\* the largest r in lo..hi with r*r <= n (binary search), for 0 <= lo*lo <= n
ISqrtBetween(n, lo, hi) ==
    IF lo >= hi THEN lo
    ELSE LET mid == (lo + hi + 1) \div 2
         IN IF mid <= n \div mid THEN ISqrtBetween(n, mid, hi)
            ELSE ISqrtBetween(n, lo, mid - 1)

\* math.sqrt of a non-negative float: a Python float
Sqrt(a) ==
    IF IsNaN(a) THEN NaNv("float")
    ELSE IF IsInf(a) THEN Infv("float", 1)
    ELSE Fin("float", ISqrtBetween(a.v * SCALE, 0, a.v * SCALE))

\* ------------------------------------------------------------- safe_float
\* isinstance(val, (np.integer, np.floating))
IsNumpyScalar(val) == val.t \in {"npint", "npfloat"}

\* isinstance(val, np.ndarray)
IsNdArray(val) == val.t = "ndarray"

RECURSIVE Size(_)
RECURSIVE SizeSum(_, _)
\* ndarray.size: the number of scalars in the array, over all its dimensions
Size(val) == IF IsNdArray(val) THEN SizeSum(val.v, Len(val.v)) ELSE 1
SizeSum(s, n) == IF n = 0 THEN 0 ELSE SizeSum(s, n - 1) + Size(s[n])

RECURSIVE Item(_)
\* .item(): the one scalar of a numpy scalar or of an array of size 1, as the
\* native Python number (np.integer -> int, np.floating -> float)
Item(val) ==
    IF IsNdArray(val) THEN Item(val.v[1])
    ELSE IF val.t = "npint" THEN [val EXCEPT !.t = "int"]
    ELSE IF val.t = "npfloat" THEN [val EXCEPT !.t = "float"]
    ELSE val

\* float(val) of a scalar: f is the float, or exc names what float() raises:
\* TypeError for None, ValueError for text that is no number, OverflowError for
\* a Python int beyond the largest float; text that spells a number parses
PyFloat(val) ==
    IF val.t = "int" /\ Abs(val.v) > FMAX
        THEN [exc |-> "OverflowError", f |-> None]
    ELSE IF val.t \in {"int", "float", "npint", "npfloat"}
        THEN [exc |-> "", f |-> [val EXCEPT !.t = "float"]]
    ELSE IF val.t = "str" /\ IsNumber(val)
        THEN [exc |-> "", f |-> [val EXCEPT !.t = "float"]]
    ELSE IF val.t = "str"
        THEN [exc |-> "ValueError", f |-> None]
    ELSE [exc |-> "TypeError", f |-> None]

\* a try block that rejects NaN and lets an Infinity through
ToFloatOrNone_nan_only(val) ==
    LET c == PyFloat(val)
    IN IF c.exc # "" THEN None
       ELSE IF IsNaN(c.f) THEN None
       ELSE c.f

\* lines 23-29: the try block, which catches every Exception
ToFloatOrNone(val) ==
    LET c == PyFloat(val)
    IN IF c.exc # "" THEN None
       ELSE IF IsNaN(c.f) \/ IsInf(c.f) THEN None
       ELSE c.f

RECURSIVE safe_float(_)
\* a safe_float whose array of no element falls through to float()
safe_float_only_for_several(val) ==
    LET v1 == IF IsNumpyScalar(val) THEN Item(val) ELSE val
    IN IF IsNdArray(v1)
       THEN IF Size(v1) = 1 THEN ToFloatOrNone(Item(v1))
            ELSE IF Size(v1) = 0 THEN None
            ELSE List([i \in 1..Len(v1.v) |-> safe_float(v1.v[i])])
       ELSE ToFloatOrNone(v1)

safe_float(val) ==
    LET v1 == IF IsNumpyScalar(val) THEN Item(val) ELSE val
    IN IF IsNdArray(v1)
       THEN IF Size(v1) = 1
            THEN ToFloatOrNone(Item(v1))
            ELSE List([i \in 1..Len(v1.v) |-> safe_float(v1.v[i])])
       ELSE ToFloatOrNone(v1)

\* ------------------------------------------------- compute_uplift_summary
\* program constants, as decimal fractions
\* the partition threshold 0.5, in tenths
ThresholdTenths == 5
\* z = 1.96, in hundredths
ZHundredths == 196
\* the factor 100.0 of the relative uplift
PercentFactor == 100
\* ddof of the sample variance
DDOF == 1

Zero == Fin("int", 0)

\* pd.to_numeric(series, errors="coerce") on one cell: a number (or text that
\* spells one) becomes a float, anything else becomes NaN
ToNumeric(cell) ==
    IF IsNumber(cell) THEN [cell EXCEPT !.t = "npfloat"] ELSE NaNv("npfloat")

\* pd.DataFrame({"treatment": ..., "outcome": ...}).dropna(): the coerced pairs,
\* in row order, without the rows holding a NaN
CoercedRow(row, treatment, outcome) ==
    [treatment |-> ToNumeric(row[treatment]), outcome |-> ToNumeric(row[outcome])]

RowIsComplete(r) == ~IsNaN(r.treatment) /\ ~IsNaN(r.outcome)

CoercedData(df, treatment, outcome) ==
    LET all == [i \in 1..Len(df.rows) |-> CoercedRow(df.rows[i], treatment, outcome)]
    IN SelectSeq(all, RowIsComplete)

\* a treated partition that leaves out the rows at the threshold
IsTreatedRow_strict(r) ==
    FGt(r.treatment, Fin("float", (ThresholdTenths * SCALE) \div 10))

\* data["treatment"] >= 0.5
IsTreatedRow(r) ==
    FGe(r.treatment, Fin("float", (ThresholdTenths * SCALE) \div 10))

\* a control partition that takes in the rows at the threshold
IsControlRow_inclusive(r) ==
    ~FGt(r.treatment, Fin("float", (ThresholdTenths * SCALE) \div 10))

\* data["treatment"] < 0.5
IsControlRow(r) ==
    FLt(r.treatment, Fin("float", (ThresholdTenths * SCALE) \div 10))

Outcomes(part) == [i \in 1..Len(part) |-> part[i].outcome]

RECURSIVE FSum(_, _)
\* the sum of the first n floats of xs
FSum(xs, n) == IF n = 0 THEN Fin("npfloat", 0) ELSE FAdd(FSum(xs, n - 1), xs[n])

\* Series.mean()
Mean(xs) == FDiv(FSum(xs, Len(xs)), FromInt(Len(xs)))

\* Series.var(ddof): NaN when there are no more than ddof values, else the sum
\* of the squared deviations from the mean over n - ddof
Variance(xs, ddof) ==
    IF Len(xs) <= ddof THEN NaNv("npfloat")
    ELSE LET avg == Mean(xs)
             dev(x) == FSub(avg, x)
             sqr == [i \in 1..Len(xs) |-> FMul(dev(xs[i]), dev(xs[i]))]
         IN FDiv(FSum(sqr, Len(sqr)), FromInt(Len(xs) - ddof))

\* Python max(x, 0): x unless 0 > x (so NaN stays NaN)
PyMax0(x) == IF FGt(Zero, x) THEN Zero ELSE x

\* a standard error that is the variance of the difference, its root not taken
StandardError_squared(treated_var, treated_n, control_var, control_n) ==
    IF treated_n > 1 /\ control_n > 1
    THEN LET se_val == PyMax0(FAdd(FDiv(treated_var, FromInt(treated_n)),
                                   FDiv(control_var, FromInt(control_n))))
         IN IF ~IsNaN(se_val) THEN [se_val EXCEPT !.t = "float"] ELSE None
    ELSE None

\* lines 60-64
StandardError(treated_var, treated_n, control_var, control_n) ==
    IF treated_n > 1 /\ control_n > 1
    THEN LET se_val == PyMax0(FAdd(FDiv(treated_var, FromInt(treated_n)),
                                   FDiv(control_var, FromInt(control_n))))
         IN IF ~IsNaN(se_val) THEN Sqrt(se_val) ELSE None
    ELSE None

\* lines 66-69: a pair of bounds, or None
ApproxCI(absolute_uplift, se) ==
    IF ~IsNone(se) /\ FGt(se, Zero)
    THEN List(<<FSub(absolute_uplift, FScale(se, ZHundredths, 100)),
                FAdd(absolute_uplift, FScale(se, ZHundredths, 100))>>)
    ELSE None

\* a relative uplift left as a fraction
RelativeUplift_fraction(absolute_uplift, control_mean) ==
    IF ~IsNone(control_mean) /\ ~FEq(control_mean, Zero)
    THEN FDiv(absolute_uplift, control_mean)
    ELSE None

\* lines 71-76: control_mean not in (None, 0)
RelativeUplift(absolute_uplift, control_mean) ==
    IF ~IsNone(control_mean) /\ ~FEq(control_mean, Zero)
    THEN FScale(FDiv(absolute_uplift, control_mean), PercentFactor, 1)
    ELSE None

\* lines 78-87: every float through safe_float, the counts as ints
Summary(treated_mean, control_mean, absolute_uplift, relative, treated_n, control_n, se, approx_ci) ==
    [t |-> "summary",
     treatment_mean |-> safe_float(treated_mean),
     control_mean |-> safe_float(control_mean),
     absolute_uplift |-> safe_float(absolute_uplift),
     relative_uplift_pct |-> safe_float(relative),
     treatment_count |-> treated_n,
     control_count |-> control_n,
     standard_error |-> safe_float(se),
     approximate_confidence_interval |->
         IF ~IsNone(approx_ci)
         THEN List([i \in 1..Len(approx_ci.v) |-> safe_float(approx_ci.v[i])])
         ELSE None]

compute_uplift_summary(df, treatment, outcome) ==
    IF treatment \notin df.cols \/ outcome \notin df.cols THEN None
    ELSE LET data == CoercedData(df, treatment, outcome)
         IN IF Len(data) = 0 THEN None
            ELSE LET treated == SelectSeq(data, IsTreatedRow)
                     control == SelectSeq(data, IsControlRow)
                 IN IF Len(treated) = 0 \/ Len(control) = 0 THEN None
                    ELSE LET treated_mean == Mean(Outcomes(treated))
                             control_mean == Mean(Outcomes(control))
                             absolute_uplift == FSub(treated_mean, control_mean)
                             treated_var == Variance(Outcomes(treated), DDOF)
                             control_var == Variance(Outcomes(control), DDOF)
                             treated_n == Len(treated)
                             control_n == Len(control)
                             se == StandardError(treated_var, treated_n,
                                                 control_var, control_n)
                             approx_ci == ApproxCI(absolute_uplift, se)
                             relative == RelativeUplift(absolute_uplift, control_mean)
                         IN Summary(treated_mean, control_mean, absolute_uplift,
                                    relative, treated_n, control_n, se, approx_ci)

\* ------------------------------------------------------------ input sets
\* Python scalars given to safe_float
PyScalars ==
    {Fin("int", 3 * SCALE), Fin("int", 0), Fin("int", (FMaxInt + 1) * SCALE),
     Fin("int", -((FMaxInt + 1) * SCALE)), Fin("float", (5 * SCALE) \div 2),
     NaNv("float"), Infv("float", 1), Infv("float", -1), None, Text,
     Fin("str", (5 * SCALE) \div 2), NaNv("str")}

\* numpy scalars given to safe_float
NpScalars ==
    {Fin("npint", 7 * SCALE), Fin("npfloat", -((3 * SCALE) \div 2)),
     NaNv("npfloat"), Infv("npfloat", 1), Infv("npfloat", -1)}

\* the elements of a float array, of a nested float array, and of an integer
\* array
FloatElems == {Fin("npfloat", -((3 * SCALE) \div 2)), NaNv("npfloat"), Infv("npfloat", 1)}
NestedElems == {Fin("npfloat", -((3 * SCALE) \div 2)), NaNv("npfloat")}
IntElems == {Fin("npint", 7 * SCALE)}

\* the 1-D arrays of length n over a set of elements
Arrays1D(elems, n) == {NdArray(s) : s \in [1..n -> elems]}

\* the 2-D arrays of shape (r, c): r rows, each a 1-D array of length c
Arrays2D(elems, r, c) == {NdArray(s) : s \in [1..r -> Arrays1D(elems, c)]}

NdArrays ==
    UNION {Arrays1D(FloatElems, n) \cup Arrays1D(IntElems, n) : n \in 0..MaxLen}
    \cup UNION {Arrays2D(NestedElems, r, c) \cup Arrays2D(IntElems, r, c) :
                   r \in 1..MaxDim, c \in 0..MaxDim}

SafeFloatInputs == PyScalars \cup NpScalars \cup NdArrays

\* the column names a request may give; a dataset has the columns T and Y
ColumnNames == {"T", "Y", "Z"}
DatasetColumns == {"T", "Y"}

ThresholdCell == Fin("float", (ThresholdTenths * SCALE) \div 10)
Huge == Fin("float", HugeInt * SCALE)
Cell(n) == Fin("int", n * SCALE)
\* the rows of a dataset: control rows of outcome -1, 0 and 2, a row at the
\* threshold, treated rows of outcome 2 and Huge, a row whose treatment is no
\* number and a row whose outcome is no number
Rows ==
    {[T |-> Cell(0), Y |-> Cell(-1)], [T |-> Cell(0), Y |-> Cell(0)],
     [T |-> Cell(0), Y |-> Cell(2)], [T |-> ThresholdCell, Y |-> Cell(0)],
     [T |-> Cell(1), Y |-> Cell(2)], [T |-> Cell(1), Y |-> Huge],
     [T |-> Text, Y |-> Cell(0)], [T |-> Cell(0), Y |-> Text]}

\* the rows (1,10), (1,20), (0,5), (0,7)
ExampleDataset ==
    [cols |-> DatasetColumns,
     rows |-> <<[T |-> Cell(1), Y |-> Cell(10)], [T |-> Cell(1), Y |-> Cell(20)],
                [T |-> Cell(0), Y |-> Cell(5)], [T |-> Cell(0), Y |-> Cell(7)]>>]

Datasets ==
    {[cols |-> DatasetColumns, rows |-> r] :
        r \in UNION {[1..n -> Rows] : n \in 0..MaxRows}}
    \cup {ExampleDataset}

\* ----------------------------------------------------------- HTTP service
NoDataset == "none"
NoResponse == [req |-> "none", status |-> 0, df |-> NoDataset]

\* the datasets the service can hold: an uploaded file's, the simulated one,
\* the bundled default file's
UploadedDatasets == {"upload1", "upload2"}
SimulatedDataset == "simulated"
DefaultDataset == "default"

\* TEMP_DATA_FILE: missing, unreadable, or the pickle of a dataset
PickleStates == {"missing", "unreadable"} \cup UploadedDatasets
                \cup {SimulatedDataset, DefaultDataset}
\* DEFAULT_DATA_FILE: missing, present but not loadable, present and loadable
DefaultStates == {"missing", "unloadable", "loadable"}
\* what df.to_pickle does: writes the file, fails leaving the file as it was,
\* or fails leaving a partial file
PersistOutcomes == {"written", "failed", "partial"}

\* the file TEMP_DATA_FILE after df.to_pickle(TEMP_DATA_FILE)
PickleAfter(file, df, outcome) ==
    IF outcome = "written" THEN df
    ELSE IF outcome = "partial" THEN "unreadable"
    ELSE file

\* a save_state that keeps the dataset in memory only once it is pickled
save_state_after_persist(df, file, outcome) ==
    [mem |-> IF outcome = "written" THEN df ELSE mem,
     pickle |-> PickleAfter(file, df, outcome)]

\* save_state(df): the state after it, the exception of to_pickle swallowed
save_state(df, file, outcome) ==
    [mem |-> df, pickle |-> PickleAfter(file, df, outcome)]

\* load_state(): the dataset returned (NoDataset for None) and the state after
load_state(m, file, default, outcome) ==
    IF m # NoDataset THEN [df |-> m, mem |-> m, pickle |-> file]
    ELSE IF file \notin {"missing", "unreadable"}
        THEN [df |-> file, mem |-> file, pickle |-> file]
    ELSE IF default = "loadable"
        THEN LET saved == save_state(DefaultDataset, file, outcome)
             IN [df |-> DefaultDataset, mem |-> saved.mem, pickle |-> saved.pickle]
    ELSE [df |-> NoDataset, mem |-> m, pickle |-> file]

\* the service has handled no request and holds no file
ServiceIdle ==
    /\ mem = NoDataset
    /\ pickle = "missing"
    /\ dflt = "missing"
    /\ resp = NoResponse
    /\ lastStored = NoDataset

serviceVars == <<mem, pickle, dflt, resp, lastStored>>

\* -------------------------------------------------- estimate_causal_effect
\* a filter that removes the treatment only
SanitizeConfounders_treatment_only(confounders, treatment, outcome) ==
    LET Keep(c) == c # treatment
    IN SelectSeq(confounders, Keep)

\* lines 96 and 148: [c for c in confounders if c != treatment and c != outcome]
SanitizeConfounders(confounders, treatment, outcome) ==
    LET Keep(c) == c # treatment /\ c # outcome
    IN SelectSeq(confounders, Keep)

\* the caller's list after the call: the comprehension builds a new list and
\* rebinds the parameter, the caller's list object is not touched
CallerListAfter(confounders, treatment, outcome) == confounders

\* line 128-129: [safe_float(x) for x in conf_ints] unless conf_ints is None
SanitizeIntervals(conf_ints) ==
    IF ~IsNone(conf_ints)
    THEN List([i \in 1..Len(conf_ints.v) |-> safe_float(conf_ints.v[i])])
    ELSE None

\* not conf_ints: None or an empty list
Falsy(conf_ints) == IsNone(conf_ints) \/ Len(conf_ints.v) = 0

\* any(val is None for val in conf_ints)
AnyEntryIsNone(conf_ints) ==
    IF IsNone(conf_ints) THEN FALSE
    ELSE \E i \in 1..Len(conf_ints.v) : IsNone(conf_ints.v[i])

\* uplift_summary and uplift_summary.get("approximate_confidence_interval")
HasUpliftInterval(uplift_summary) ==
    IF uplift_summary.t = "summary"
    THEN ~IsNone(uplift_summary.approximate_confidence_interval)
    ELSE FALSE

\* lines 131-132
FallbackIntervals(conf_ints, uplift_summary) ==
    IF (Falsy(conf_ints) \/ AnyEntryIsNone(conf_ints)) /\ HasUpliftInterval(uplift_summary)
    THEN uplift_summary.approximate_confidence_interval
    ELSE conf_ints

\* lib is what the causal-inference library returned: the estimate's value and
\* confidence intervals, test_stat_significance() (None or its p_value) and the
\* refutation (None or its new_effect)
estimate_causal_effect(df, treatment, outcome, confounders, lib) ==
    LET used == SanitizeConfounders(confounders, treatment, outcome)
        uplift_summary == compute_uplift_summary(df, treatment, outcome)
        conf_ints == FallbackIntervals(SanitizeIntervals(lib.ci), uplift_summary)
    IN [t |-> "result",
        estimate_value |-> safe_float(lib.value),
        confidence_intervals |-> conf_ints,
        p_value |-> IF ~IsNone(lib.significance)
                    THEN safe_float(lib.significance) ELSE None,
        refutation_result |-> IF ~IsNone(lib.refutation)
                              THEN safe_float(lib.refutation) ELSE None,
        uplift_summary |-> uplift_summary,
        common_causes |-> used,
        caller_confounders |-> CallerListAfter(confounders, treatment, outcome)]

\* the graph G that get_causal_graph_image draws
get_causal_graph_image(df, treatment, outcome, confounders) ==
    LET used == SanitizeConfounders(confounders, treatment, outcome)
        cs == {used[i] : i \in 1..Len(used)}
    IN [t |-> "graph",
        nodes |-> {treatment, outcome} \cup cs,
        confounder_nodes |-> cs,
        edges |-> {<<c, treatment>> : c \in cs} \cup {<<c, outcome>> : c \in cs}
                  \cup {<<treatment, outcome>>},
        common_causes |-> used,
        caller_confounders |-> CallerListAfter(confounders, treatment, outcome)]

\* ----------------------------------------------- inputs of the estimation
\* datasets of the estimation: rows with a control outcome -1 or 2 and a treated
\* outcome 2
EstimateRows ==
    {[T |-> Cell(0), Y |-> Cell(-1)], [T |-> Cell(0), Y |-> Cell(2)],
     [T |-> Cell(1), Y |-> Cell(2)]}

EstimateDatasets ==
    {[cols |-> DatasetColumns, rows |-> r] :
        r \in UNION {[1..n -> EstimateRows] : n \in 0..MaxRows}}

\* the shapes of estimate.get_confidence_intervals(): None, an empty array, a
\* flat pair of bounds, a nested array of shape (1, 2)
LibraryIntervals ==
    {None, NdArray(<<>>)} \cup Arrays1D(FloatElems, 2) \cup Arrays2D(NestedElems, 1, 2)

\* a scalar the library returns: a float, a numpy scalar or an array of one
LibraryScalars ==
    {Fin("float", (5 * SCALE) \div 2), NaNv("float")} \cup NpScalars
    \cup Arrays1D(FloatElems, 1)

DefaultLibrary ==
    [value |-> Fin("npfloat", 3 * SCALE),
     ci |-> NdArray(<<NdArray(<<Fin("npfloat", SCALE), Fin("npfloat", 5 * SCALE)>>)>>),
     significance |-> NdArray(<<Fin("npfloat", 3)>>),
     refutation |-> Fin("npfloat", 0)]

ConfounderNames == {"T", "Y", "X", "W"}
ConfounderLists == UNION {[1..n -> ConfounderNames] : n \in 0..MaxLen}

\* the requests: every interval shape on every dataset, every confounder list
\* with every choice of columns, every scalar in every scalar field
EstimateInputs ==
    {[df |-> d, treatment |-> tr, outcome |-> oc, confounders |-> <<"X">>,
      lib |-> [DefaultLibrary EXCEPT !.ci = ci]] :
        d \in EstimateDatasets, tr \in {"T"}, oc \in {"Y", "Z"},
        ci \in LibraryIntervals}
    \cup
    {[df |-> ExampleDataset, treatment |-> tr, outcome |-> oc, confounders |-> cf,
      lib |-> DefaultLibrary] :
        tr \in ColumnNames, oc \in ColumnNames, cf \in ConfounderLists}
    \cup
    {[df |-> ExampleDataset, treatment |-> "T", outcome |-> "Y", confounders |-> <<"X">>,
      lib |-> [DefaultLibrary EXCEPT !.value = v, !.significance = p, !.refutation = r]] :
        v \in LibraryScalars, p \in LibraryScalars \cup {None},
        r \in LibraryScalars \cup {None}}

\* ------------------------------------------------------ calls: safe_float
InitSafeFloat ==
    /\ op = "safe_float"
    /\ args \in {[val |-> v] : v \in SafeFloatInputs}
    /\ ret = Pending
    /\ ServiceIdle

SafeFloatCall ==
    /\ op = "safe_float"
    /\ ret = Pending
    /\ ret' = safe_float(args.val)
    /\ UNCHANGED <<op, args, serviceVars>>

\* ------------------------------------------ calls: compute_uplift_summary
InitUplift ==
    /\ op = "compute_uplift_summary"
    /\ args \in {[df |-> d, treatment |-> "T", outcome |-> "Y"] : d \in Datasets}
    /\ ret = Pending
    /\ ServiceIdle

\* the call, for any treatment and outcome column name
UpliftCall ==
    /\ op = "compute_uplift_summary"
    /\ ret = Pending
    /\ \E treatment \in {"T", "Z"}, outcome \in {"Y", "Z"} :
        /\ args' = [args EXCEPT !.treatment = treatment, !.outcome = outcome]
        /\ ret' = compute_uplift_summary(args.df, treatment, outcome)
    /\ UNCHANGED <<op, serviceVars>>

\* ----------------------------- calls: estimate_causal_effect and the graph
InitEstimate ==
    /\ op = "analyze"
    /\ args \in EstimateInputs
    /\ ret = Pending
    /\ ServiceIdle

EstimateCall ==
    /\ op = "analyze"
    /\ ret = Pending
    /\ ret' = estimate_causal_effect(args.df, args.treatment, args.outcome,
                                     args.confounders, args.lib)
    /\ UNCHANGED <<op, args, serviceVars>>

GraphCall ==
    /\ op = "analyze"
    /\ ret = Pending
    /\ ret' = get_causal_graph_image(args.df, args.treatment, args.outcome,
                                     args.confounders)
    /\ UNCHANGED <<op, args, serviceVars>>

\* ------------------------------------------------------- the core's calls
Init == InitSafeFloat \/ InitUplift \/ InitEstimate

Next == SafeFloatCall \/ UpliftCall \/ EstimateCall \/ GraphCall

Spec == Init /\ [][Next]_vars

\* ------------------------------------------------------ the HTTP service
InitService ==
    /\ op = "service"
    /\ args = None
    /\ ret = None
    /\ mem = NoDataset
    /\ pickle \in PickleStates
    /\ dflt \in DefaultStates
    /\ resp = NoResponse
    /\ lastStored = NoDataset

\* POST /upload: load_dataset or preprocess_retail_data raises (400, nothing
\* stored) or the dataset is stored with save_state
Upload ==
    /\ op = "service"
    /\ \E d \in UploadedDatasets, parsed \in BOOLEAN, outcome \in PersistOutcomes :
        IF parsed
        THEN LET saved == save_state(d, pickle, outcome)
             IN /\ mem' = saved.mem
                /\ pickle' = saved.pickle
                /\ lastStored' = d
                /\ resp' = [req |-> "upload", status |-> 200, df |-> d]
        ELSE /\ resp' = [req |-> "upload", status |-> 400, df |-> NoDataset]
             /\ UNCHANGED <<mem, pickle, lastStored>>
    /\ UNCHANGED <<op, args, ret, dflt>>

\* POST /simulate: simulate_dataset raises (500, nothing stored) or the
\* simulated dataset is stored with save_state
Simulate ==
    /\ op = "service"
    /\ \E generated \in BOOLEAN, outcome \in PersistOutcomes :
        IF generated
        THEN LET saved == save_state(SimulatedDataset, pickle, outcome)
             IN /\ mem' = saved.mem
                /\ pickle' = saved.pickle
                /\ lastStored' = SimulatedDataset
                /\ resp' = [req |-> "simulate", status |-> 200, df |-> SimulatedDataset]
        ELSE /\ resp' = [req |-> "simulate", status |-> 500, df |-> NoDataset]
             /\ UNCHANGED <<mem, pickle, lastStored>>
    /\ UNCHANGED <<op, args, ret, dflt>>

\* GET /columns
Columns ==
    /\ op = "service"
    /\ \E outcome \in PersistOutcomes :
        LET loaded == load_state(mem, pickle, dflt, outcome)
        IN /\ mem' = loaded.mem
           /\ pickle' = loaded.pickle
           /\ resp' = IF loaded.df = NoDataset
                       THEN [req |-> "columns", status |-> 400, df |-> NoDataset]
                       ELSE [req |-> "columns", status |-> 200, df |-> loaded.df]
    /\ UNCHANGED <<op, args, ret, dflt, lastStored>>

\* POST /analyze: 400 without a dataset, else the estimation and the graph on
\* the loaded dataset, 500 when either raises
Analyze ==
    /\ op = "service"
    /\ \E outcome \in PersistOutcomes, estimated \in BOOLEAN :
        LET loaded == load_state(mem, pickle, dflt, outcome)
        IN /\ mem' = loaded.mem
           /\ pickle' = loaded.pickle
           /\ resp' = IF loaded.df = NoDataset
                       THEN [req |-> "analyze", status |-> 400, df |-> NoDataset]
                       ELSE IF estimated
                       THEN [req |-> "analyze", status |-> 200, df |-> loaded.df]
                       ELSE [req |-> "analyze", status |-> 500, df |-> loaded.df]
    /\ UNCHANGED <<op, args, ret, dflt, lastStored>>

NextService == Upload \/ Simulate \/ Columns \/ Analyze

SpecService == InitService /\ [][NextService]_vars

\* =================================================================== claims
\* what the claims speak of, stated on the inputs and the returned fields

UpliftReturned == op = "compute_uplift_summary" /\ ret.t # "pending"
SummaryReturned == UpliftReturned /\ ret.t = "summary"

\* numeric coercion succeeds on a cell: it is a number and not NaN
Coerces(cell) == cell.k \in {"fin", "inf"}
AtLeastThreshold(cell) ==
    IF cell.k = "inf" THEN cell.v > 0 ELSE cell.v >= ThresholdCell.v
BelowThreshold(cell) ==
    IF cell.k = "inf" THEN cell.v < 0 ELSE cell.v < ThresholdCell.v

\* the rows (by index) whose treatment and outcome both coerce, and of those the
\* rows with treatment >= 0.5 and the rows with treatment < 0.5
RetainedRows(a) ==
    {i \in 1..Len(a.df.rows) :
        Coerces(a.df.rows[i][a.treatment]) /\ Coerces(a.df.rows[i][a.outcome])}
TreatedRows(a) == {i \in RetainedRows(a) : AtLeastThreshold(a.df.rows[i][a.treatment])}
ControlRows(a) == {i \in RetainedRows(a) : BelowThreshold(a.df.rows[i][a.treatment])}

SummaryExpected(a) ==
    /\ a.treatment \in a.df.cols
    /\ a.outcome \in a.df.cols
    /\ TreatedRows(a) # {}
    /\ ControlRows(a) # {}

\* C1: compute_uplift_summary returns a summary record if and only if both named
\* columns exist and, after dropping the rows whose treatment or outcome fails
\* numeric coercion, at least one row has treatment >= 0.5 and at least one has
\* treatment < 0.5; in every other case it returns the absent value.
C1_SummaryIffBothPartitions ==
    UpliftReturned =>
        IF SummaryExpected(args) THEN ret.t = "summary" ELSE ret = None

\* C1 witness: a summary is returned for a dataset that also holds a dropped row
C1_Witness ==
    /\ SummaryReturned
    /\ Cardinality(RetainedRows(args)) < Len(args.df.rows)

\* a returned value the transport can carry: a finite float, null, or a sequence
\* of such values
RECURSIVE TransportSafe(_)
TransportSafe(x) ==
    \/ IsNone(x)
    \/ x.t = "float" /\ x.k = "fin"
    \/ x.t = "list" /\ \A i \in 1..Len(x.v) : TransportSafe(x.v[i])

SummarySafe(r) ==
    /\ TransportSafe(r.treatment_mean)
    /\ TransportSafe(r.control_mean)
    /\ TransportSafe(r.absolute_uplift)
    /\ TransportSafe(r.relative_uplift_pct)
    /\ TransportSafe(r.standard_error)
    /\ TransportSafe(r.approximate_confidence_interval)
    /\ r.treatment_count \in Nat
    /\ r.control_count \in Nat

\* C2: no NaN or +/-Infinity reaches a consumer: for every input safe_float
\* returns (it raises nothing), and returns a finite float, null, or a sequence
\* of (recursively) finite floats or null; every numeric field of the record
\* compute_uplift_summary returns and of the result estimate_causal_effect
\* returns, each confidence bound included, is a finite number or null.
C2_NoNonFiniteReachesConsumer ==
    /\ (op = "safe_float" /\ ret.t # "pending") => TransportSafe(ret)
    /\ SummaryReturned => SummarySafe(ret)
    /\ (op = "analyze" /\ ret.t = "result") =>
        /\ TransportSafe(ret.estimate_value)
        /\ TransportSafe(ret.confidence_intervals)
        /\ TransportSafe(ret.p_value)
        /\ TransportSafe(ret.refutation_result)
        /\ ret.uplift_summary.t = "summary" => SummarySafe(ret.uplift_summary)

RECURSIVE HasNonFiniteScalar(_)
\* a library value holds a NaN or an Infinity somewhere
HasNonFiniteScalar(x) ==
    IF IsNdArray(x) THEN \E i \in 1..Len(x.v) : HasNonFiniteScalar(x.v[i])
    ELSE x.k \in {"nan", "inf"}

\* C2 witness: an estimation whose library interval holds a non-finite bound has
\* returned a summary and a sequence of bounds
C2_Witness ==
    /\ op = "analyze"
    /\ ret.t = "result"
    /\ HasNonFiniteScalar(args.lib.ci)
    /\ ret.uplift_summary.t = "summary"
    /\ ret.confidence_intervals.t = "list"

\* ---- C3: the rules of safe_float
RECURSIVE OnlyScalar(_)
\* the one scalar of an array of size 1
OnlyScalar(x) == IF IsNdArray(x) THEN OnlyScalar(x.v[1]) ELSE x

\* a Python int too large for a float
BeyondFloat(x) == x.t = "int" /\ Abs(x.v) > FMAX

\* C3 (as claimed): a finite numeric scalar yields the equal native float; NaN,
\* +/-Infinity and a non-convertible value yield null; an array of exactly one
\* element yields what that element yields; an array of more than one element
\* yields the sequence of safe_float of its elements, in order; and a sequence
\* is returned only for an array of more than one element.
C3_AsClaimed ==
    (op = "safe_float" /\ ret.t # "pending") =>
        LET x == args.val
        IN /\ (x.t \in {"int", "float", "npint", "npfloat"} /\ IsFinite(x))
                => ret = Fin("float", x.v)
           /\ (~IsNdArray(x) /\ (x.k \in {"nan", "inf"} \/ IsNone(x) \/ x = Text))
                => IsNone(ret)
           /\ (IsNdArray(x) /\ Size(x) = 1) => ret = safe_float(OnlyScalar(x))
           /\ (IsNdArray(x) /\ Size(x) > 1)
                => /\ ret.t = "list"
                   /\ Len(ret.v) = Len(x.v)
                   /\ \A i \in 1..Len(x.v) : ret.v[i] = safe_float(x.v[i])
           /\ ret.t = "list" => (IsNdArray(x) /\ Size(x) > 1)

\* C3 (amended): as claimed, but the element-wise sequence is what every array
\* whose size is not exactly one yields, the array of no element included (it
\* yields the empty sequence), and a sequence is returned only for such an
\* array; and the finite scalar that yields the equal float is one within the
\* float range: a Python int beyond it is not convertible and yields null.
C3_SafeFloatRules ==
    (op = "safe_float" /\ ret.t # "pending") =>
        LET x == args.val
        IN /\ (x.t \in {"int", "float", "npint", "npfloat"} /\ IsFinite(x)
                /\ ~BeyondFloat(x))
                => ret = Fin("float", x.v)
           /\ (~IsNdArray(x) /\ (x.k \in {"nan", "inf"} \/ IsNone(x) \/ x = Text
                                 \/ BeyondFloat(x)))
                => IsNone(ret)
           /\ (IsNdArray(x) /\ Size(x) = 1) => ret = safe_float(OnlyScalar(x))
           /\ (IsNdArray(x) /\ Size(x) # 1)
                => /\ ret.t = "list"
                   /\ Len(ret.v) = Len(x.v)
                   /\ \A i \in 1..Len(x.v) : ret.v[i] = safe_float(x.v[i])
           /\ ret.t = "list" => (IsNdArray(x) /\ Size(x) # 1)

\* C3 witness: safe_float has returned for an array of no element
C3_Witness ==
    /\ op = "safe_float"
    /\ ret.t # "pending"
    /\ IsNdArray(args.val)
    /\ Size(args.val) = 0

\* ---- C4: partitions, counts, means
RECURSIVE OutcomeSum(_, _, _)
\* the exact sum, in units, of the outcome over the rows I among the first n
OutcomeSum(a, I, n) ==
    IF n = 0 THEN 0
    ELSE OutcomeSum(a, I, n - 1)
         + (IF n \in I THEN a.df.rows[n][a.outcome].v ELSE 0)

\* field is the arithmetic mean of the outcome over the rows I, to the grid
IsMeanOver(field, a, I) ==
    LET n == Cardinality(I)
        total == OutcomeSum(a, I, Len(a.df.rows))
    IN /\ field.t = "float"
       /\ IsFinite(field)
       /\ Abs(field.v * n - total) < n

\* the float sum of the outcome over the rows I is finite
SumIsFinite(a, I) == Abs(OutcomeSum(a, I, Len(a.df.rows))) <= FMAX

PartitionAndCounts ==
    /\ TreatedRows(args) \cap ControlRows(args) = {}
    /\ TreatedRows(args) \cup ControlRows(args) = RetainedRows(args)
    /\ ret.treatment_count = Cardinality(TreatedRows(args))
    /\ ret.control_count = Cardinality(ControlRows(args))
    /\ ret.treatment_count + ret.control_count = Cardinality(RetainedRows(args))
    /\ ret.treatment_count >= 1
    /\ ret.control_count >= 1

\* C4 (as claimed): in every summary the counts are the partition sizes, the
\* means are the arithmetic means of the outcome over each partition and
\* absolute_uplift = treatment_mean - control_mean.
C4_AsClaimed ==
    SummaryReturned =>
        /\ PartitionAndCounts
        /\ IsMeanOver(ret.treatment_mean, args, TreatedRows(args))
        /\ IsMeanOver(ret.control_mean, args, ControlRows(args))
        /\ IsFinite(ret.absolute_uplift)
        /\ ret.absolute_uplift.v = ret.treatment_mean.v - ret.control_mean.v

\* C4 (amended): the counts are the partition sizes; each mean is the arithmetic
\* mean of its partition when the partition's outcome sum is finite and null
\* when that sum overflows; absolute_uplift is treatment_mean - control_mean
\* when both means and the difference are finite, and null otherwise.
C4_PartitionCountsMeans ==
    SummaryReturned =>
        /\ PartitionAndCounts
        /\ IF SumIsFinite(args, TreatedRows(args))
           THEN IsMeanOver(ret.treatment_mean, args, TreatedRows(args))
           ELSE IsNone(ret.treatment_mean)
        /\ IF SumIsFinite(args, ControlRows(args))
           THEN IsMeanOver(ret.control_mean, args, ControlRows(args))
           ELSE IsNone(ret.control_mean)
        /\ IF /\ IsFinite(ret.treatment_mean)
              /\ IsFinite(ret.control_mean)
              /\ Abs(ret.treatment_mean.v - ret.control_mean.v) <= FMAX
           THEN /\ IsFinite(ret.absolute_uplift)
                /\ ret.absolute_uplift.v = ret.treatment_mean.v - ret.control_mean.v
           ELSE IsNone(ret.absolute_uplift)

\* C4 witness: the summary of the rows (1,10), (1,20), (0,5), (0,7): means 15
\* and 6, uplift 9, counts 2 and 2
C4_Witness ==
    /\ SummaryReturned
    /\ args.df = ExampleDataset
    /\ ret.treatment_mean = Fin("float", 15 * SCALE)
    /\ ret.control_mean = Fin("float", 6 * SCALE)
    /\ ret.absolute_uplift = Fin("float", 9 * SCALE)
    /\ ret.treatment_count = 2
    /\ ret.control_count = 2

\* ---- C5: relative uplift
\* (absolute_uplift / control_mean) * 100 on the returned fields, in units
RelativeOfFields(r) ==
    TruncDiv(r.absolute_uplift.v * SCALE, r.control_mean.v) * PercentFactor

RelativeOverflows(r) ==
    \/ Abs(TruncDiv(r.absolute_uplift.v * SCALE, r.control_mean.v)) > FMAX
    \/ Abs(RelativeOfFields(r)) > FMAX

\* C5 (as claimed): relative_uplift_pct is null when control_mean is zero and
\* equals (absolute_uplift / control_mean) * 100 when control_mean is non-zero.
C5_AsClaimed ==
    SummaryReturned =>
        /\ (IsFinite(ret.control_mean) /\ ret.control_mean.v = 0)
            => IsNone(ret.relative_uplift_pct)
        /\ (IsFinite(ret.control_mean) /\ ret.control_mean.v # 0)
            => /\ IsFinite(ret.absolute_uplift)
               /\ IsFinite(ret.relative_uplift_pct)
               /\ ~RelativeOverflows(ret)
               /\ ret.relative_uplift_pct.v = RelativeOfFields(ret)

\* C5 (amended): relative_uplift_pct is null when control_mean is zero, and null
\* when control_mean or absolute_uplift is null (not finite); otherwise it
\* equals (absolute_uplift / control_mean) * 100 when that value is finite, a
\* negative control_mean included, and is null when that value overflows.
C5_RelativeUplift ==
    SummaryReturned =>
        IF IsNone(ret.control_mean) \/ IsNone(ret.absolute_uplift)
            THEN IsNone(ret.relative_uplift_pct)
        ELSE IF ret.control_mean.v = 0 THEN IsNone(ret.relative_uplift_pct)
        ELSE IF RelativeOverflows(ret) THEN IsNone(ret.relative_uplift_pct)
        ELSE /\ ret.relative_uplift_pct.t = "float"
             /\ IsFinite(ret.relative_uplift_pct)
             /\ ret.relative_uplift_pct.v = RelativeOfFields(ret)

\* C5 witness: a summary with a negative control mean and a finite, negative
\* relative uplift
C5_Witness ==
    /\ SummaryReturned
    /\ IsFinite(ret.control_mean)
    /\ ret.control_mean.v < 0
    /\ IsFinite(ret.relative_uplift_pct)
    /\ ret.relative_uplift_pct.v < 0

\* ---- C6: standard error
\* the outcomes of the rows I, in row order
RECURSIVE OutcomesOf(_, _, _)
OutcomesOf(a, I, n) ==
    IF n = 0 THEN <<>>
    ELSE IF n \in I
        THEN Append(OutcomesOf(a, I, n - 1), ToNumeric(a.df.rows[n][a.outcome]))
    ELSE OutcomesOf(a, I, n - 1)

\* sqrt(max(var_treated/n_treated + var_control/n_control, 0)) in floats, with
\* sample variances of denominator n - 1
ComputedStandardError(a) ==
    LET to == OutcomesOf(a, TreatedRows(a), Len(a.df.rows))
        co == OutcomesOf(a, ControlRows(a), Len(a.df.rows))
    IN Sqrt(PyMax0(FAdd(FDiv(Variance(to, 1), FromInt(Len(to))),
                        FDiv(Variance(co, 1), FromInt(Len(co))))))

RECURSIVE SquareSum(_, _, _)
\* the exact sum, in square units, of the squared outcome over the rows I
SquareSum(a, I, n) ==
    IF n = 0 THEN 0
    ELSE SquareSum(a, I, n - 1)
         + (IF n \in I THEN a.df.rows[n][a.outcome].v * a.df.rows[n][a.outcome].v
            ELSE 0)

\* n*sum(x^2) - sum(x)^2 over the rows I: n*(n-1) times their sample variance
VarianceNumerator(a, I) ==
    LET n == Cardinality(I)
        s1 == OutcomeSum(a, I, Len(a.df.rows))
    IN n * SquareSum(a, I, Len(a.df.rows)) - s1 * s1

\* every retained outcome is small enough to be squared exactly
SmallOutcomes(a) ==
    \A i \in RetainedRows(a) : Abs(a.df.rows[i][a.outcome].v) <= 20 * SCALE

\* f (in units) is, within tol units, the exact square root of
\* var_treated/n_treated + var_control/n_control
IsExactStandardError(f, a, tol) ==
    LET tn == Cardinality(TreatedRows(a))
        cn == Cardinality(ControlRows(a))
        da == tn * tn * (tn - 1)
        db == cn * cn * (cn - 1)
        num == VarianceNumerator(a, TreatedRows(a)) * db
               + VarianceNumerator(a, ControlRows(a)) * da
        den == da * db
    IN /\ num <= (f + tol) * (f + tol) * den
       /\ f >= tol => (f - tol) * (f - tol) * den <= num

\* C6 (as claimed): standard_error is non-null exactly when both partitions have
\* at least 2 rows and the computed value is not NaN; when non-null it equals
\* sqrt(max(var_treated/n_treated + var_control/n_control, 0)) and is >= 0.
C6_AsClaimed ==
    SummaryReturned =>
        LET se == ret.standard_error
            computed == ComputedStandardError(args)
        IN /\ ~IsNone(se) <=> /\ ret.treatment_count >= 2
                               /\ ret.control_count >= 2
                               /\ ~IsNaN(computed)
           /\ ~IsNone(se) => (se.v = computed.v /\ se.v >= 0)

\* C6 (amended): standard_error is non-null exactly when both partitions have at
\* least 2 rows and the computed value is finite (neither NaN nor an Infinity
\* from overflow); it is null whenever a partition has exactly 1 row; when
\* non-null it equals sqrt(max(var_treated/n_treated + var_control/n_control,
\* 0)) with sample variances of denominator n - 1, and is never negative.
C6_StandardError ==
    SummaryReturned =>
        LET se == ret.standard_error
            computed == ComputedStandardError(args)
        IN /\ ~IsNone(se) <=> /\ ret.treatment_count >= 2
                               /\ ret.control_count >= 2
                               /\ IsFinite(computed)
           /\ (ret.treatment_count = 1 \/ ret.control_count = 1) => IsNone(se)
           /\ ~IsNone(se) =>
                /\ se.t = "float"
                /\ IsFinite(se)
                /\ se.v = computed.v
                /\ se.v >= 0
                /\ SmallOutcomes(args) => IsExactStandardError(se.v, args, 5)

\* C6 witness: a summary with a positive standard error over small outcomes
C6_Witness ==
    /\ SummaryReturned
    /\ IsFinite(ret.standard_error)
    /\ ret.standard_error.v > 0
    /\ SmallOutcomes(args)

\* ---- C7: approximate confidence interval
\* C7 (as claimed): approximate_confidence_interval is non-null exactly when
\* standard_error is non-null and strictly positive; when non-null it is the
\* pair [absolute_uplift - 1.96*se, absolute_uplift + 1.96*se] and its bounds
\* enclose absolute_uplift.
C7_AsClaimed ==
    SummaryReturned =>
        LET se == ret.standard_error
            ci == ret.approximate_confidence_interval
            au == ret.absolute_uplift
        IN /\ ~IsNone(ci) <=> (IsFinite(se) /\ se.v > 0)
           /\ ~IsNone(ci) =>
                /\ Len(ci.v) = 2
                /\ IsFinite(ci.v[1]) /\ IsFinite(ci.v[2]) /\ IsFinite(au)
                /\ ci.v[1].v = au.v - TruncDiv(ZHundredths * se.v, 100)
                /\ ci.v[2].v = au.v + TruncDiv(ZHundredths * se.v, 100)
                /\ ci.v[1].v <= au.v
                /\ au.v <= ci.v[2].v

\* ---- C8: the confidence-interval fallback
RECURSIVE ScalarCount(_)
ScalarCount(x) == IF IsNone(x) THEN 0 ELSE Size(x)

\* the delegated interval is absent: None, or an array holding no bound
IntervalAbsent(ci) == ScalarCount(ci) = 0

\* C8 (as claimed): for every shape of the delegated interval, if it is absent
\* or holds a bound that is not finite, and the uplift summary has a non-null
\* approximate_confidence_interval, the returned confidence_intervals is the
\* uplift summary's interval; if every delegated bound is finite it is the
\* sanitized delegated interval.
C8_AsClaimed ==
    (op = "analyze" /\ ret.t = "result") =>
        LET ci == args.lib.ci
            up == ret.uplift_summary
        IN /\ ((IntervalAbsent(ci) \/ HasNonFiniteScalar(ci)) /\ HasUpliftInterval(up))
                => ret.confidence_intervals = up.approximate_confidence_interval
           /\ (~IntervalAbsent(ci) /\ ~HasNonFiniteScalar(ci))
                => ret.confidence_intervals = SanitizeIntervals(ci)

\* ---- C9: confounders
RECURSIVE Without(_, _)
\* the entries of a list that are not in the set S, in order
Without(list, S) ==
    IF list = <<>> THEN <<>>
    ELSE IF Head(list) \in S THEN Without(Tail(list), S)
    ELSE <<Head(list)>> \o Without(Tail(list), S)

\* C9: the confounders estimate_causal_effect and get_causal_graph_image use (as
\* common causes of the causal model, as confounder nodes and edges of the
\* graph) never include the treatment or the outcome and are exactly the
\* remaining entries of the input list; the caller's list is left unmodified.
C9_ConfoundersSanitized ==
    (op = "analyze" /\ ret.t \in {"result", "graph"}) =>
        LET remaining == Without(args.confounders, {args.treatment, args.outcome})
        IN /\ ret.common_causes = remaining
           /\ \A i \in 1..Len(ret.common_causes) :
                ret.common_causes[i] \notin {args.treatment, args.outcome}
           /\ ret.caller_confounders = args.confounders
           /\ ret.t = "graph" =>
                /\ ret.confounder_nodes = {remaining[i] : i \in 1..Len(remaining)}
                /\ ret.confounder_nodes \cap {args.treatment, args.outcome} = {}
                /\ \A e \in ret.edges :
                     \/ e = <<args.treatment, args.outcome>>
                     \/ /\ e[1] \in ret.confounder_nodes
                        /\ e[2] \in {args.treatment, args.outcome}
                /\ \A c \in ret.confounder_nodes :
                     <<c, args.treatment>> \in ret.edges /\ <<c, args.outcome>> \in ret.edges

\* C9 witness: the graph was drawn for a list naming the treatment, the outcome
\* and one more column
C9_Witness ==
    /\ op = "analyze"
    /\ ret.t = "graph"
    /\ args.treatment # args.outcome
    /\ \E i, j, k \in 1..Len(args.confounders) :
        /\ args.confounders[i] = args.treatment
        /\ args.confounders[j] = args.outcome
        /\ args.confounders[k] \notin {args.treatment, args.outcome}

\* ---- C10: the current dataset of the service
\* the dataset a /columns or /analyze request arriving now would read
CurrentDataset(m, file, default) == load_state(m, file, default, "written").df

\* the last request was a /columns or an /analyze
LastWasRead == resp.req \in {"columns", "analyze"}

C10_State ==
    /\ lastStored # NoDataset =>
        /\ CurrentDataset(mem, pickle, dflt) = lastStored
        /\ LastWasRead => (resp.df = lastStored /\ resp.status # 400)
    /\ (LastWasRead /\ resp.status = 400) =>
        /\ mem = NoDataset
        /\ pickle \in {"missing", "unreadable"}
        /\ dflt \in {"missing", "unloadable"}
    /\ (LastWasRead /\ resp.status # 400) => resp.df = CurrentDataset(mem, pickle, dflt)

C10_Step ==
    (\/ resp'.req = "upload" /\ resp'.status = 400
     \/ resp'.req \in {"columns", "analyze"})
    => /\ CurrentDataset(mem', pickle', dflt') = CurrentDataset(mem, pickle, dflt)
       /\ lastStored' = lastStored
       /\ mem # NoDataset => mem' = mem

\* C10: within one process the dataset /columns and /analyze read through
\* load_state is the one stored by the most recent successful /upload or
\* /simulate, even when persisting it failed; a failed /upload and every
\* /columns or /analyze leave the current dataset unchanged; /columns and
\* /analyze answer 400 only when no dataset is in memory, the pickle file is
\* missing or unreadable, and the default file is missing or unloadable.
C10_CurrentDataset == []C10_State /\ [][C10_Step]_vars

\* C10 witness: after an upload whose pickle could not be written, /analyze has
\* read the uploaded dataset
C10_Witness ==
    /\ op = "service"
    /\ resp.req = "analyze"
    /\ resp.status = 200
    /\ lastStored \in UploadedDatasets
    /\ resp.df = lastStored
    /\ pickle # lastStored

====
